---- MODULE Spec2Model ----
(***************************************************************************)
(* Blog thumbnail generator: the three server endpoints and the page that  *)
(* drives them.                                                            *)
(*   /api/youtube            src/src/app/api/youtube/route.ts              *)
(*   /api/generate           src/src/app/api/generate/route.ts             *)
(*   /api/generate-enhanced  src/unnamed/part_001                          *)
(*   /api/frame              src/unnamed/part_000 (lines 294-392)          *)
(*   Home (page)             src/unnamed/part_000 (lines 1-292)            *)
(* Strings that a regular expression inspects are sequences of one-        *)
(* character strings.  Strings that are only assembled by a template       *)
(* literal are sequences too, the literal pieces of the template being     *)
(* single elements.                                                        *)
(***************************************************************************)
EXTENDS Integers, Sequences, FiniteSets, TLC

\* ------------------------------------------------------------------------
\* Bounds of the model
\* ------------------------------------------------------------------------
MaxBodyLen == 2
MaxItems == 2
MaxParts == 2
MaxClock == 1
MaxCalls == 4

\* ------------------------------------------------------------------------
\* Generic string helpers
\* ------------------------------------------------------------------------
Fill(c, n) == [i \in 1..n |-> c]

\* s.startsWith(lit) at 1-based position i
MatchesAt(s, i, lit) ==
  /\ i >= 1
  /\ i + Len(lit) - 1 <= Len(s)
  /\ SubSeq(s, i, i + Len(lit) - 1) = lit

\* s.slice(0, n)
Slice(s, n) == SubSeq(s, 1, IF Len(s) < n THEN Len(s) ELSE n)

\* Sequences over S of length 0..n
SeqsUpTo(S, n) == UNION {[1..k -> S] : k \in 0..n}

\* ========================================================================
\* /api/youtube
\* ========================================================================
IdLen == 11
TranscriptLimit == 5000

LowerChars == {"a","b","c","d","e","f","g","h","i","j","k","l","m",
               "n","o","p","q","r","s","t","u","v","w","x","y","z"}
UpperChars == {"A","B","C","D","E","F","G","H","I","J","K","L","M",
               "N","O","P","Q","R","S","T","U","V","W","X","Y","Z"}
DigitChars == {"0","1","2","3","4","5","6","7","8","9"}
\* the class [a-zA-Z0-9_-] of the second pattern
IdChars == LowerChars \cup UpperChars \cup DigitChars \cup {"_", "-"}
\* the excluded class of the capture group [^&\n?#] of the first pattern
StopCharsWithoutHash == {"&", "\n", "?"}
StopChars == {"&", "\n", "?", "#"}

WatchPrefix == <<"y","o","u","t","u","b","e",".","c","o","m","/",
                 "w","a","t","c","h","?","v","=">>
ShortPrefix == <<"y","o","u","t","u",".","b","e","/">>
EmbedPrefix == <<"y","o","u","t","u","b","e",".","c","o","m","/",
                 "e","m","b","e","d","/">>
\* the alternation of the first pattern, in its order
UrlAlternatives == <<WatchPrefix, ShortPrefix, EmbedPrefix>>

\* end of the longest run of non-stop characters that starts at j
\* (j - 1 when the run is empty)
RunEnd(s, j) ==
  CHOOSE k \in (j - 1)..Len(s) :
    /\ \A m \in j..k : s[m] \notin StopChars
    /\ k = Len(s) \/ s[k + 1] \in StopChars

\* alternative a of the first pattern matches at i with a non-empty capture
AltMatchesAt(url, i, a) ==
  /\ MatchesAt(url, i, UrlAlternatives[a])
  /\ i + Len(UrlAlternatives[a]) <= Len(url)
  /\ url[i + Len(UrlAlternatives[a])] \notin StopChars

NoMatch == [matched |-> FALSE, id |-> <<>>]

\* url.match(/(?:youtube\.com\/watch\?v=|youtu\.be\/|youtube\.com\/embed\/)([^&\n?#]+)/)
\* : leftmost position, first alternative, greedy capture
MatchUrlPattern(url) ==
  LET pos == {i \in 1..Len(url) : \E a \in 1..3 : AltMatchesAt(url, i, a)}
  IN IF pos = {} THEN NoMatch
     ELSE LET i == CHOOSE p \in pos : \A q \in pos : p <= q
              a == CHOOSE b \in 1..3 :
                     /\ AltMatchesAt(url, i, b)
                     /\ \A c \in 1..(b - 1) : ~AltMatchesAt(url, i, c)
              j == i + Len(UrlAlternatives[a])
          IN [matched |-> TRUE, id |-> SubSeq(url, j, RunEnd(url, j))]

\* url.match(/^([a-zA-Z0-9_-]{11})$/)
MatchBareId(url) ==
  IF Len(url) = IdLen /\ \A i \in 1..Len(url) : url[i] \in IdChars
  THEN [matched |-> TRUE, id |-> url]
  ELSE NoMatch

\* first pattern that matches wins; null when none does
extractVideoId(url) ==
  LET m1 == MatchUrlPattern(url)
  IN IF m1.matched THEN m1
     ELSE LET m2 == MatchBareId(url)
          IN IF m2.matched THEN m2 ELSE NoMatch

\* `https://www.youtube.com/oembed?url=https://www.youtube.com/watch?v=${videoId}&format=json`
OembedUrl(videoId) ==
  <<"https://www.youtube.com/oembed?url=https://www.youtube.com/watch?v=">>
    \o videoId \o <<"&format=json">>

\* `https://img.youtube.com/vi/${videoId}/maxresdefault.jpg`
ThumbnailUrl(videoId) ==
  <<"https://img.youtube.com/vi/">> \o videoId \o <<"/maxresdefault.jpg">>

\* transcriptData.map((item) => item.text).join(" ")
RECURSIVE JoinTexts(_)
JoinTexts(items) ==
  IF Len(items) = 0 THEN <<>>
  ELSE IF Len(items) = 1 THEN items[1]
  ELSE items[1] \o <<" ">> \o JoinTexts(Tail(items))

\* ---- inputs of the model -------------------------------------------------
SampleIdChars == {"d", "Q", "4", "_", "-"}
SampleIds ==
  {Fill(c1, k) \o Fill(c2, IdLen - k) :
     c1 \in SampleIdChars, c2 \in SampleIdChars, k \in 0..IdLen}
   \cup {<<"d","Q","w","4","w","9","W","g","X","c","Q">>}
\* the ids the handler is driven with
HandlerIds ==
  {id \in SampleIds : \E c1 \in SampleIdChars, c2 \in SampleIdChars :
                         id = Fill(c1, 4) \o Fill(c2, IdLen - 4)}
    \cup {<<"d","Q","w","4","w","9","W","g","X","c","Q">>}
Leads == {<<>>, <<"h","t","t","p","s",":","/","/","w","w","w",".">>}
Shapes == {WatchPrefix, ShortPrefix, EmbedPrefix, <<>>}
Suffixes == {<<>>, <<"&","t","=","1">>, <<"?","s">>, <<"#","f">>}
\* bodies that are no 11-character id
OtherBodies ==
  SeqsUpTo({"a", "&", "/"}, MaxBodyLen)
    \cup {Fill("a", IdLen - 1), Fill("a", IdLen + 1), Fill("a", IdLen - 1) \o <<".">>}
OtherTails == {<<>>, <<"\n">>, <<"/","x">>}
WellFormedUrls ==
  {l \o s \o id \o x : l \in Leads, s \in Shapes \ {<<>>}, id \in HandlerIds, x \in Suffixes}
    \cup HandlerIds
OtherUrls ==
  {l \o s \o b \o x : l \in Leads, s \in Shapes, b \in OtherBodies, x \in OtherTails}
    \cup {s \o id \o x : s \in {ShortPrefix}, id \in HandlerIds, x \in OtherTails}
UrlInputs == WellFormedUrls \cup OtherUrls

\* request bodies: unparsable JSON, url missing, url a non-string, url a string
YtRequests ==
  {[kind |-> k, url |-> <<>>] : k \in {"badjson", "absent", "number"}}
    \cup {[kind |-> "string", url |-> u] : u \in UrlInputs}

Metadatas == {[title |-> "Title A", author_name |-> "Author A"],
              [title |-> "Title B", author_name |-> "Author B"]}
TextSamples == {<<"h">>, <<"h","i">>}
TranscriptOutcomes ==
  {[ok |-> FALSE, items |-> <<>>]}
    \cup {[ok |-> TRUE, items |-> it] : it \in SeqsUpTo(TextSamples, MaxItems)}
OembedOutcomes ==
  {[kind |-> k, metadata |-> CHOOSE m \in Metadatas : TRUE] :
      k \in {"throw", "notok", "badjson"}}
    \cup {[kind |-> "ok", metadata |-> m] : m \in Metadatas}

NoResp == [status |-> 0]
ErrResp(st, msg) == [status |-> st, error |-> msg]

VARIABLES ytPc, ytUrl, ytVideoId, ytMetadata, ytCalls, ytResp,
          exInput, exResult, exPc

ytVars == <<ytPc, ytUrl, ytVideoId, ytMetadata, ytCalls, ytResp>>
exVars == <<exInput, exResult, exPc>>

YtInit ==
  /\ ytPc = "idle"
  /\ ytUrl = [kind |-> "absent", url |-> <<>>]
  /\ ytVideoId = <<>>
  /\ ytMetadata = CHOOSE m \in Metadatas : TRUE
  /\ ytCalls = <<>>
  /\ ytResp = NoResp

\* an outbound call of the handler and how it settled
Call(to, arg) == [to |-> to, arg |-> arg, result |-> "pending"]
Settle(calls, result) ==
  [calls EXCEPT ![Len(calls)] = [@ EXCEPT !.result = result]]

\* the response to a url no id was extracted from (lines 26-31)
YtInvalidUrlRespServerError == ErrResp(500, "Invalid YouTube URL")
YtInvalidUrlResp == ErrResp(400, "Invalid YouTube URL")

\* POST up to the first outbound call (lines 18-35)
YtPost(req) ==
  /\ ytPc = "idle"
  /\ ytUrl' = req
  /\ ytMetadata' = ytMetadata
  /\ IF req.kind = "badjson" \/ req.kind = "number"
     THEN \* request.json() or url.match throws: outer catch
          /\ ytPc' = "done"
          /\ ytVideoId' = <<>>
          /\ ytCalls' = <<>>
          /\ ytResp' = ErrResp(500, "Failed to fetch video data")
     ELSE IF req.kind = "absent" \/ Len(req.url) = 0
     THEN /\ ytPc' = "done"
          /\ ytVideoId' = <<>>
          /\ ytCalls' = <<>>
          /\ ytResp' = ErrResp(400, "URL is required")
     ELSE LET m == extractVideoId(req.url)
          IN IF ~m.matched \/ Len(m.id) = 0
             THEN /\ ytPc' = "done"
                  /\ ytVideoId' = <<>>
                  /\ ytCalls' = <<>>
                  /\ ytResp' = YtInvalidUrlResp
             ELSE /\ ytPc' = "oembed"
                  /\ ytVideoId' = m.id
                  /\ ytCalls' = <<Call("oembed", OembedUrl(m.id))>>
                  /\ ytResp' = NoResp

\* the oEmbed fetch settles (lines 35-49)
YtOembedReturn(out) ==
  /\ ytPc = "oembed"
  /\ ytMetadata' = out.metadata
  /\ UNCHANGED <<ytUrl, ytVideoId>>
  /\ IF out.kind = "throw" \/ out.kind = "badjson"
     THEN /\ ytPc' = "done"
          /\ ytCalls' = Settle(ytCalls, out.kind)
          /\ ytResp' = ErrResp(500, "Failed to fetch video data")
     ELSE IF out.kind = "notok"
     THEN /\ ytPc' = "done"
          /\ ytCalls' = Settle(ytCalls, out.kind)
          /\ ytResp' = ErrResp(400, "Failed to fetch video metadata")
     ELSE /\ ytPc' = "transcript"
          /\ ytCalls' = Append(Settle(ytCalls, out.kind), Call("transcript", ytVideoId))
          /\ ytResp' = NoResp

YtSuccess(videoId, metadata, transcript) ==
  [status |-> 200,
   videoId |-> videoId,
   title |-> metadata.title,
   author |-> metadata.author_name,
   thumbnailUrl |-> ThumbnailUrl(videoId),
   transcript |-> Slice(transcript, TranscriptLimit)]

\* the transcript try/catch and the response (lines 46-62)
YtRespondUncaught(videoId, metadata, out) ==
  IF out.ok THEN YtSuccess(videoId, metadata, JoinTexts(out.items))
  ELSE ErrResp(500, "Failed to fetch video data")
YtRespond(videoId, metadata, out) ==
  YtSuccess(videoId, metadata, IF out.ok THEN JoinTexts(out.items) ELSE <<>>)

\* the transcript provider settles (lines 47-62)
YtTranscriptReturn(out) ==
  /\ ytPc = "transcript"
  /\ ytPc' = "done"
  /\ UNCHANGED <<ytUrl, ytVideoId, ytMetadata>>
  /\ ytCalls' = Settle(ytCalls, IF out.ok THEN "ok" ELSE "throw")
  /\ ytResp' = YtRespond(ytVideoId, ytMetadata, out)

\* ---- extractVideoId applied to inputs of known make-up ------------------
ExInputs ==
  [lead : Leads, shape : Shapes, body : SampleIds \cup OtherBodies,
   tail : Suffixes \cup OtherTails]
ExUrl(in) == in.lead \o in.shape \o in.body \o in.tail

ExIdle ==
  /\ exInput = [lead |-> <<>>, shape |-> <<>>, body |-> <<>>, tail |-> <<>>]
  /\ exResult = NoMatch
  /\ exPc = "idle"

ExInit ==
  /\ exInput \in ExInputs
  /\ exResult = NoMatch
  /\ exPc = "input"

ExApply ==
  /\ exPc = "input"
  /\ exResult' = extractVideoId(ExUrl(exInput))
  /\ exPc' = "done"
  /\ UNCHANGED exInput

\* ========================================================================
\* /api/generate-enhanced and /api/generate
\* ========================================================================
SHOPIFY_IMAGE_WIDTH == 1200
SHOPIFY_IMAGE_HEIGHT == 628
GenerateContextLimit == 1500
EnhanceContextLimit == 1000

\* a JavaScript value interpolated into a template literal
Undefined == "<undefined>"
Interp(v) == IF v = Undefined THEN "undefined" ELSE v

DataPrefix == <<"d","a","t","a",":">>
Base64Marker == <<";","b","a","s","e","6","4",",">>
\* what `.` does not match
LineTerminators == {"\n", "\r", "U+2028", "U+2029"}

NoDataUri == [matched |-> FALSE, mimeType |-> <<>>, data |-> <<>>]

\* sourceImage.match(/^data:([^;]+);base64,(.+)$/)
MatchDataUriEmptyPayload(s) ==
  IF ~MatchesAt(s, 1, DataPrefix) THEN NoDataUri
  ELSE LET semis == {i \in (Len(DataPrefix) + 1)..Len(s) : s[i] = ";"}
       IN IF semis = {} THEN NoDataUri
          ELSE LET semi == CHOOSE i \in semis : \A j \in semis : i <= j
                   from == semi + Len(Base64Marker)
               IN IF /\ semi > Len(DataPrefix) + 1
                     /\ MatchesAt(s, semi, Base64Marker)
                     /\ \A k \in from..Len(s) : s[k] \notin LineTerminators
                  THEN [matched |-> TRUE,
                        mimeType |-> SubSeq(s, Len(DataPrefix) + 1, semi - 1),
                        data |-> SubSeq(s, from, Len(s))]
                  ELSE NoDataUri
MatchDataUri(s) ==
  IF ~MatchesAt(s, 1, DataPrefix) THEN NoDataUri
  ELSE LET semis == {i \in (Len(DataPrefix) + 1)..Len(s) : s[i] = ";"}
       IN IF semis = {} THEN NoDataUri
          ELSE LET semi == CHOOSE i \in semis : \A j \in semis : i <= j
                   from == semi + Len(Base64Marker)
               IN IF /\ semi > Len(DataPrefix) + 1
                     /\ MatchesAt(s, semi, Base64Marker)
                     /\ from <= Len(s)
                     /\ \A k \in from..Len(s) : s[k] \notin LineTerminators
                  THEN [matched |-> TRUE,
                        mimeType |-> SubSeq(s, Len(DataPrefix) + 1, semi - 1),
                        data |-> SubSeq(s, from, Len(s))]
                  ELSE NoDataUri

\* Buffer.from(arrayBuffer).toString("base64")
ToBase64(bytes) == <<"base64(">> \o bytes \o <<")">>

DefaultStyle == "modern, clean, professional"
StyleOrDefault(style) == IF style = "" THEN DefaultStyle ELSE style

\* the generation prompt with its "Context:" line left out
GenerationPromptWithoutContext(title, transcript, style) ==
  <<"Create a professional, high-quality blog featured image ... Topic: ",
    Interp(title), "\n">>
  \o <<"\n\nRequirements:\n- Style: ", StyleOrDefault(style),
       "\n- Aspect ratio: 16:9 (horizontal, suitable for ",
       ToString(SHOPIFY_IMAGE_WIDTH), "x", ToString(SHOPIFY_IMAGE_HEIGHT), ") ...">>
\* the generation prompt (part_001 lines 77-89)
GenerationPrompt(title, transcript, style) ==
  <<"Create a professional, high-quality blog featured image ... Topic: ",
    Interp(title), "\n">>
  \o (IF Len(transcript) > 0
      THEN <<"Context: ">> \o Slice(transcript, GenerateContextLimit) ELSE <<>>)
  \o <<"\n\nRequirements:\n- Style: ", StyleOrDefault(style),
       "\n- Aspect ratio: 16:9 (horizontal, suitable for ",
       ToString(SHOPIFY_IMAGE_WIDTH), "x", ToString(SHOPIFY_IMAGE_HEIGHT), ") ...">>

\* the enhancement prompt (part_001 lines 60-72)
EnhancementPrompt(title, transcript, style) ==
  <<"Transform this image into a professional Shopify blog featured image.",
    "\n\nTopic context: ", Interp(title), "\n">>
  \o (IF Len(transcript) > 0
      THEN <<"Content context: ">> \o Slice(transcript, EnhanceContextLimit) ELSE <<>>)
  \o <<"\n\nEnhancement requirements:\n- Apply a ", StyleOrDefault(style), " style",
       "\n- Optimize for blog header format (16:9 aspect ratio, ",
       ToString(SHOPIFY_IMAGE_WIDTH), "x", ToString(SHOPIFY_IMAGE_HEIGHT), ") ...">>

\* the generation prompt of /api/generate (route.ts lines 22-34)
ImagePrompt(title, transcript, style) ==
  <<"Create a professional, high-quality blog featured image ... Topic: ",
    Interp(title), "\n">>
  \o (IF Len(transcript) > 0
      THEN <<"Context: ">> \o Slice(transcript, GenerateContextLimit) ELSE <<>>)
  \o <<"\n\nRequirements:\n- Style: ", StyleOrDefault(style),
       "\n- Aspect ratio: 16:9 (horizontal, suitable for ",
       ToString(SHOPIFY_IMAGE_WIDTH), "x", ToString(SHOPIFY_IMAGE_HEIGHT), ") ...">>

TextPart(text) == [kind |-> "text", text |-> text, mimeType |-> <<>>, data |-> <<>>]
InlinePart(mimeType, data) ==
  [kind |-> "inlineData", text |-> <<>>, mimeType |-> mimeType, data |-> data]

\* the loop over response.candidates[0].content.parts (part_001 lines 106-115):
\* every part with a text overwrites promptUsed, every part with inline data
\* overwrites imageData
RECURSIVE ScanPartsFirstWins(_, _)
ScanPartsFirstWins(parts, acc) ==
  IF Len(parts) = 0 THEN acc
  ELSE LET part == Head(parts)
           a1 == IF Len(part.text) > 0 /\ ~acc.sawText
                 THEN [acc EXCEPT !.promptUsed = part.text, !.sawText = TRUE] ELSE acc
           a2 == IF Len(part.data) > 0 /\ Len(a1.imageData) = 0
                 THEN [a1 EXCEPT !.imageData = part.data] ELSE a1
       IN ScanPartsFirstWins(Tail(parts), a2)
RECURSIVE ScanParts(_, _)
ScanParts(parts, acc) ==
  IF Len(parts) = 0 THEN acc
  ELSE LET part == Head(parts)
           a1 == IF Len(part.text) > 0
                 THEN [acc EXCEPT !.promptUsed = part.text, !.sawText = TRUE] ELSE acc
           a2 == IF Len(part.data) > 0
                 THEN [a1 EXCEPT !.imageData = part.data] ELSE a1
       IN ScanParts(Tail(parts), a2)

\* the same loop in /api/generate (route.ts lines 49-58)
RECURSIVE ScanPartsGenerate(_, _)
ScanPartsGenerate(parts, acc) ==
  IF Len(parts) = 0 THEN acc
  ELSE LET part == Head(parts)
           a1 == IF Len(part.text) > 0
                 THEN [acc EXCEPT !.promptUsed = part.text, !.sawText = TRUE] ELSE acc
           a2 == IF Len(part.data) > 0
                 THEN [a1 EXCEPT !.imageData = part.data] ELSE a1
       IN ScanPartsGenerate(Tail(parts), a2)

ScanStart(promptUsed) == [promptUsed |-> promptUsed, imageData |-> <<>>, sawText |-> FALSE]

GenSuccess(promptUsed, imageData) ==
  [status |-> 200,
   imagePrompt |-> promptUsed,
   imageData |-> <<"data:image/png;base64,">> \o imageData,
   width |-> SHOPIFY_IMAGE_WIDTH,
   height |-> SHOPIFY_IMAGE_HEIGHT]

NoImageResp == ErrResp(500, "Failed to generate image - no image data in response")

\* ---- inputs of the model -------------------------------------------------
SampleMime == <<"i","m","g">>
SamplePayload == <<"A","B">>
SourceImageStrings ==
  { DataPrefix \o SampleMime \o Base64Marker \o SamplePayload,
    DataPrefix \o SampleMime \o Base64Marker \o <<"A">>,
    DataPrefix,
    DataPrefix \o Base64Marker \o SamplePayload,
    DataPrefix \o SampleMime \o Base64Marker,
    DataPrefix \o SampleMime \o <<",">> \o SamplePayload,
    DataPrefix \o SampleMime \o <<";","x","=","1">> \o Base64Marker \o SamplePayload,
    DataPrefix \o SampleMime \o Base64Marker \o <<"A","\n","B">>,
    <<"h","t","t","p",":","/","/","x">> }
SourceImages ==
  {[kind |-> "absent", val |-> <<>>], [kind |-> "number", val |-> <<>>]}
    \cup {[kind |-> "string", val |-> v] : v \in SourceImageStrings}
GenTitles == {"Title A"}
GenTranscripts == {<<>>, <<"x","y">>}
GenStyles == {"", "vibrant and colorful"}
GenModes == {Undefined, "generate", "enhance", "Enhance"}
GeRequests ==
  {[json |-> FALSE, title |-> Undefined, transcript |-> <<>>, style |-> "",
    sourceImage |-> [kind |-> "absent", val |-> <<>>], mode |-> Undefined]}
    \cup [json : {TRUE}, title : GenTitles, transcript : GenTranscripts,
          style : GenStyles, sourceImage : SourceImages, mode : GenModes]
GRequests ==
  {[json |-> FALSE, title |-> Undefined, transcript |-> <<>>, style |-> ""]}
    \cup [json : {TRUE}, title : GenTitles \cup {Undefined},
          transcript : GenTranscripts, style : GenStyles]
ResponseParts ==
  [text : {<<>>, <<"t1">>, <<"t2">>}, data : {<<>>, <<"i1">>, <<"i2">>}]
    \ {[text |-> <<"t2">>, data |-> <<"i1">>], [text |-> <<"t1">>, data |-> <<"i2">>],
       [text |-> <<"t2">>, data |-> <<"i2">>]}
ProviderOutcomes ==
  {[kind |-> k, parts |-> <<>>] : k \in {"throw", "nocandidates"}}
    \cup {[kind |-> "ok", parts |-> ps] : ps \in SeqsUpTo(ResponseParts, MaxParts)}
NoResponse == [kind |-> "none", parts |-> <<>>]
ImageFetchOutcomes ==
  {[ok |-> FALSE, bytes |-> <<>>], [ok |-> TRUE, bytes |-> <<"jpegbytes">>]}

VARIABLES apiKey, gePc, geReq, geParts, geCalls, geResponse, geResp,
          gPc, gReq, gCalls, gResponse, gResp

geVars == <<gePc, geReq, geParts, geCalls, geResponse, geResp>>
gVars == <<gPc, gReq, gCalls, gResponse, gResp>>
imgVars == <<apiKey, geVars, gVars>>

GeIdle ==
  /\ gePc = "idle"
  /\ geReq = CHOOSE r \in GeRequests : ~r.json
  /\ geParts = <<>>
  /\ geCalls = <<>>
  /\ geResponse = NoResponse
  /\ geResp = NoResp

GIdle ==
  /\ gPc = "idle"
  /\ gReq = CHOOSE r \in GRequests : ~r.json
  /\ gCalls = <<>>
  /\ gResponse = NoResponse
  /\ gResp = NoResp

ImgInit == apiKey \in BOOLEAN /\ GeIdle /\ GIdle

\* the branch of line 31
EnhanceBranch(req) == req.mode = "enhance" /\ req.sourceImage.kind # "absent"

\* promptUsed before the loop (line 104)
GeDefaultPrompt(req) ==
  IF req.mode = "enhance" THEN <<"Enhanced from source image">> ELSE <<"AI generated">>

\* POST of /api/generate-enhanced up to its first outbound call (lines 14-100)
GePost(req) ==
  /\ gePc = "idle"
  /\ geReq' = req
  /\ geResponse' = geResponse
  /\ IF ~req.json
     THEN /\ gePc' = "done" /\ geParts' = <<>> /\ geCalls' = <<>>
          /\ geResp' = ErrResp(500, "Unexpected token in JSON")
     ELSE IF ~apiKey
     THEN /\ gePc' = "done" /\ geParts' = <<>> /\ geCalls' = <<>>
          /\ geResp' = ErrResp(500, "GEMINI_API_KEY not configured")
     ELSE IF EnhanceBranch(req)
     THEN IF req.sourceImage.kind = "number"
          THEN /\ gePc' = "done" /\ geParts' = <<>> /\ geCalls' = <<>>
               /\ geResp' = ErrResp(500, "sourceImage.startsWith is not a function")
          ELSE IF MatchesAt(req.sourceImage.val, 1, DataPrefix)
          THEN LET m == MatchDataUri(req.sourceImage.val)
               IN IF m.matched
                  THEN /\ gePc' = "model"
                       /\ geParts' = <<InlinePart(m.mimeType, m.data),
                                       TextPart(EnhancementPrompt(req.title, req.transcript,
                                                                  req.style))>>
                       /\ geCalls' = <<Call("model", geParts')>>
                       /\ geResp' = NoResp
                  ELSE /\ gePc' = "done" /\ geParts' = <<>> /\ geCalls' = <<>>
                       /\ geResp' = ErrResp(500, "Invalid base64 image format")
          ELSE /\ gePc' = "fetchimage"
               /\ geParts' = <<>>
               /\ geCalls' = <<Call("fetch", req.sourceImage.val)>>
               /\ geResp' = NoResp
     ELSE /\ gePc' = "model"
          /\ geParts' = <<TextPart(GenerationPrompt(req.title, req.transcript, req.style))>>
          /\ geCalls' = <<Call("model", geParts')>>
          /\ geResp' = NoResp
  /\ UNCHANGED <<apiKey, gVars>>

\* fetchImageAsBase64 settles (lines 7-12, 47-100)
GeImageFetched(out) ==
  /\ gePc = "fetchimage"
  /\ UNCHANGED <<apiKey, gVars, geReq, geResponse>>
  /\ IF ~out.ok
     THEN /\ gePc' = "done" /\ geParts' = <<>>
          /\ geCalls' = Settle(geCalls, "throw")
          /\ geResp' = ErrResp(500, "fetch failed")
     ELSE /\ gePc' = "model"
          /\ geParts' = <<InlinePart(<<"image/jpeg">>, ToBase64(out.bytes)),
                          TextPart(EnhancementPrompt(geReq.title, geReq.transcript,
                                                     geReq.style))>>
          /\ geCalls' = Append(Settle(geCalls, "ok"), Call("model", geParts'))
          /\ geResp' = NoResp

\* generateContent settles (lines 94-129)
GeModelReturn(out) ==
  /\ gePc = "model"
  /\ gePc' = "done"
  /\ UNCHANGED <<apiKey, gVars, geReq, geParts>>
  /\ geCalls' = Settle(geCalls, IF out.kind = "throw" THEN "throw" ELSE "ok")
  /\ geResponse' = out
  /\ IF out.kind = "throw"
     THEN geResp' = ErrResp(500, "provider error")
     ELSE LET r == IF out.kind = "ok"
                   THEN ScanParts(out.parts, ScanStart(GeDefaultPrompt(geReq)))
                   ELSE ScanStart(GeDefaultPrompt(geReq))
          IN IF Len(r.imageData) = 0 THEN geResp' = NoImageResp
             ELSE geResp' = GenSuccess(r.promptUsed, r.imageData)

\* POST of /api/generate up to generateContent (route.ts lines 7-43)
GPost(req) ==
  /\ gPc = "idle"
  /\ gReq' = req
  /\ gResponse' = gResponse
  /\ IF ~req.json
     THEN /\ gPc' = "done" /\ gCalls' = <<>>
          /\ gResp' = ErrResp(500, "Unexpected token in JSON")
     ELSE IF ~apiKey
     THEN /\ gPc' = "done" /\ gCalls' = <<>>
          /\ gResp' = ErrResp(500, "GEMINI_API_KEY not configured")
     ELSE /\ gPc' = "model"
          /\ gCalls' = <<Call("model",
                              <<TextPart(ImagePrompt(req.title, req.transcript, req.style))>>)>>
          /\ gResp' = NoResp
  /\ UNCHANGED <<apiKey, geVars>>

\* generateContent settles (route.ts lines 37-72)
GModelReturn(out) ==
  /\ gPc = "model"
  /\ gPc' = "done"
  /\ UNCHANGED <<apiKey, geVars, gReq>>
  /\ gCalls' = Settle(gCalls, IF out.kind = "throw" THEN "throw" ELSE "ok")
  /\ gResponse' = out
  /\ IF out.kind = "throw"
     THEN gResp' = ErrResp(500, "provider error")
     ELSE LET start == ScanStart(ImagePrompt(gReq.title, gReq.transcript, gReq.style))
              r == IF out.kind = "ok" THEN ScanPartsGenerate(out.parts, start) ELSE start
          IN IF Len(r.imageData) = 0 THEN gResp' = NoImageResp
             ELSE gResp' = GenSuccess(r.promptUsed, r.imageData)

\* ========================================================================
\* /api/frame
\* ========================================================================
\* a JavaScript number: NaN or an integer
NaN == [nan |-> TRUE, v |-> 0]
Num(n) == [nan |-> FALSE, v |-> n]
Plus(a, b) == IF a.nan \/ b.nan THEN NaN ELSE Num(a.v + b.v)
Times(a, b) == IF a.nan \/ b.nan THEN NaN ELSE Num(a.v * b.v)

DigitValue(c) ==
  CASE c = "0" -> 0 [] c = "1" -> 1 [] c = "2" -> 2 [] c = "3" -> 3 [] c = "4" -> 4
    [] c = "5" -> 5 [] c = "6" -> 6 [] c = "7" -> 7 [] c = "8" -> 8 [] c = "9" -> 9

RECURSIVE DecimalValue(_)
DecimalValue(s) ==
  IF Len(s) = 0 THEN 0
  ELSE 10 * DecimalValue(SubSeq(s, 1, Len(s) - 1)) + DigitValue(s[Len(s)])

\* Number(piece) for the pieces the model feeds it: "" is 0, digits are their
\* value, anything else is NaN
ToNumber(s) ==
  IF \A i \in 1..Len(s) : s[i] \in DigitChars THEN Num(DecimalValue(s)) ELSE NaN

\* timestamp.split(":")
RECURSIVE SplitColon(_)
SplitColon(s) ==
  LET colons == {i \in 1..Len(s) : s[i] = ":"}
  IN IF colons = {} THEN <<s>>
     ELSE LET i == CHOOSE c \in colons : \A d \in colons : c <= d
          IN <<SubSeq(s, 1, i - 1)>> \o SplitColon(SubSeq(s, i + 1, Len(s)))

parseTimestamp(timestamp) ==
  LET parts == [i \in 1..Len(SplitColon(timestamp)) |-> ToNumber(SplitColon(timestamp)[i])]
  IN IF Len(parts) = 2 THEN Plus(Times(parts[1], Num(60)), parts[2])
     ELSE IF Len(parts) = 3
     THEN Plus(Plus(Times(parts[1], Num(3600)), Times(parts[2], Num(60))), parts[3])
     ELSE Num(0)

DefaultTimestamp == <<"0",":","0","0">>

\* path.join(tempDir, `video-${Date.now()}.mp4`), `frame-${Date.now()}.jpg`
VideoPath(t) == [kind |-> "video", t |-> t]
FramePath(t) == [kind |-> "frame", t |-> t]
TempPaths == [kind : {"video", "frame"}, t : 0..(MaxClock + 1)]

\* the contents of a file: <<>> when it does not exist
NoFile == <<>>
FrameBytes(r, complete) ==
  <<"jpeg written for request ", ToString(r), IF complete THEN " (whole)" ELSE " (partial)">>
Exists(fs, path) == fs[path] # NoFile
Unlink(fs, path) == [fs EXCEPT ![path] = NoFile]

\* if (fs.existsSync(videoPath)) fs.unlinkSync(videoPath);
\* if (fs.existsSync(framePath)) fs.unlinkSync(framePath);
CleanUp(fs, videoPath, framePath) == Unlink(Unlink(fs, videoPath), framePath)

\* `https://img.youtube.com/vi/${videoId}/maxresdefault.jpg` (line 346)
FrameThumbnailUrl(videoId) ==
  <<"https://img.youtube.com/vi/">> \o videoId \o <<"/maxresdefault.jpg">>

FallbackNote ==
  "Frame extraction requires yt-dlp and ffmpeg. Using thumbnail as fallback."

\* the response of the inner catch (lines 342-352)
FallbackRespRethrown(videoId) == ErrResp(500, "Command failed")
FallbackResp(videoId) ==
  [status |-> 200, frameData |-> FrameThumbnailUrl(videoId), note |-> FallbackNote]

FrameResp(bytes) ==
  [status |-> 200, frameData |-> <<"data:image/jpeg;base64,">> \o ToBase64(bytes)]

\* ---- inputs of the model -------------------------------------------------
FrameProcs == {1, 2}
SampleVideoIds == {<<"dQw4w9WgXcQ">>}
SampleTimestamps ==
  {<<>>, <<"1",":","3","0">>, <<"1",":","0","2",":","0","3">>, <<"a","b","c">>}
\* request bodies: unparsable JSON, videoId missing or empty, timestamp a
\* non-string (timestamp.split is not a function), well-formed
FrameRequests ==
  {[kind |-> k, videoId |-> <<>>, timestamp |-> <<>>] : k \in {"badjson", "novideoid"}}
    \cup {[kind |-> k, videoId |-> v, timestamp |-> <<>>] :
            k \in {"numbertimestamp"}, v \in SampleVideoIds}
    \cup {[kind |-> "ok", videoId |-> v, timestamp |-> t] :
            v \in SampleVideoIds, t \in SampleTimestamps}

VARIABLES frNow, frFs, fr

frVars == <<frNow, frFs, fr>>

FrIdleRec ==
  [pc |-> "idle",
   req |-> [kind |-> "novideoid", videoId |-> <<>>, timestamp |-> <<>>],
   videoPath |-> VideoPath(0), framePath |-> FramePath(0),
   seconds |-> Num(0), ytdlp |-> "none", ffmpeg |-> "none", wrote |-> FALSE,
   whole |-> FALSE,
   frameBuffer |-> NoFile, resp |-> NoResp]

FrInit ==
  /\ frNow = 0
  /\ frFs = [p \in TempPaths |-> NoFile]
  /\ fr = [r \in FrameProcs |-> FrIdleRec]

\* the clock of Date.now() advances
FrTick ==
  /\ frNow < MaxClock
  /\ frNow' = frNow + 1
  /\ UNCHANGED <<frFs, fr>>

\* POST is entered: the two temp paths are computed (lines 313-319); the
\* clock may advance between the two Date.now() calls
FrPost(r, req, t2) ==
  /\ fr[r].pc = "idle"
  /\ t2 \in {frNow, frNow + 1}
  /\ frNow' = t2
  /\ fr' = [fr EXCEPT ![r] = [@ EXCEPT !.pc = "json", !.req = req,
                                       !.videoPath = VideoPath(frNow),
                                       !.framePath = FramePath(t2)]]
  /\ UNCHANGED frFs

\* request.json() settles; validation, parseTimestamp and the start of
\* yt-dlp (lines 319-334), or the outer catch (lines 376-391)
FrParsed(r) ==
  /\ fr[r].pc = "json"
  /\ UNCHANGED frNow
  /\ LET me == fr[r]
     IN IF me.req.kind = "badjson" \/ me.req.kind = "numbertimestamp"
        THEN /\ frFs' = CleanUp(frFs, me.videoPath, me.framePath)
             /\ fr' = [fr EXCEPT ![r] = [@ EXCEPT !.pc = "done",
                         !.resp = ErrResp(500, IF me.req.kind = "badjson"
                                               THEN "Unexpected token in JSON"
                                               ELSE "timestamp.split is not a function")]]
        ELSE IF me.req.kind = "novideoid" \/ Len(me.req.videoId) = 0
        THEN /\ frFs' = frFs
             /\ fr' = [fr EXCEPT ![r] = [@ EXCEPT !.pc = "done",
                         !.resp = ErrResp(400, "Video ID is required")]]
        ELSE /\ frFs' = frFs
             /\ fr' = [fr EXCEPT ![r] = [@ EXCEPT !.pc = "ytdlp", !.ytdlp = "running",
                         !.seconds = parseTimestamp(IF Len(me.req.timestamp) = 0
                                                    THEN DefaultTimestamp
                                                    ELSE me.req.timestamp)]]

\* yt-dlp settles (lines 331-352): on success ffmpeg is started
FrYtDlpReturn(r, ok) ==
  /\ fr[r].pc = "ytdlp"
  /\ UNCHANGED <<frNow, frFs>>
  /\ fr' = [fr EXCEPT ![r] =
              IF ok THEN [@ EXCEPT !.pc = "ffmpeg", !.ytdlp = "ok", !.ffmpeg = "running"]
              ELSE [@ EXCEPT !.pc = "done", !.ytdlp = "failed",
                             !.resp = FallbackResp(fr[r].req.videoId)]]

\* the running ffmpeg writes its output file, wholly or in part; without -y
\* (line 339) it does not overwrite a file that exists
FrFfmpegWrite(r, complete) ==
  /\ fr[r].pc = "ffmpeg"
  /\ ~fr[r].wrote
  /\ ~Exists(frFs, fr[r].framePath)
  /\ frFs' = [frFs EXCEPT ![fr[r].framePath] = FrameBytes(r, complete)]
  /\ fr' = [fr EXCEPT ![r] = [@ EXCEPT !.wrote = TRUE, !.whole = complete]]
  /\ UNCHANGED frNow

\* ffmpeg settles (lines 338-375): a failure or timeout takes the inner
\* catch; a success goes on to read the frame file and clean up. An ffmpeg
\* that wrote its file exits with success only if it wrote the whole of it;
\* one that wrote nothing does so only if no file is in its way
FrFfmpegReturn(r, ok) ==
  /\ fr[r].pc = "ffmpeg"
  /\ UNCHANGED frNow
  /\ LET me == fr[r]
     IN IF ~ok
        THEN /\ frFs' = frFs
             /\ fr' = [fr EXCEPT ![r] = [@ EXCEPT !.pc = "done", !.ffmpeg = "failed",
                                                  !.resp = FallbackResp(me.req.videoId)]]
        ELSE /\ me.wrote => me.whole
             /\ ~me.wrote => ~Exists(frFs, me.framePath)
             /\ IF ~Exists(frFs, me.framePath)
                THEN /\ frFs' = frFs
                     /\ fr' = [fr EXCEPT ![r] = [@ EXCEPT !.pc = "done", !.ffmpeg = "ok",
                                 !.resp = ErrResp(500, "Failed to extract frame")]]
                ELSE /\ frFs' = CleanUp(frFs, me.videoPath, me.framePath)
                     /\ fr' = [fr EXCEPT ![r] = [@ EXCEPT !.pc = "done", !.ffmpeg = "ok",
                                 !.frameBuffer = frFs[me.framePath],
                                 !.resp = FrameResp(frFs[me.framePath])]]

\* ========================================================================
\* Home: the page (part_000 lines 1-292)
\* ========================================================================
Null == [null |-> TRUE]

\* what the server may answer: a video per url, an image per title
UiUrls == {"", "https://youtu.be/aaaaaaaaaaa", "https://youtu.be/bbbbbbbbbbb"}
VideoOf(url) ==
  [null |-> FALSE,
   videoId |-> IF url = "https://youtu.be/aaaaaaaaaaa" THEN "aaaaaaaaaaa" ELSE "bbbbbbbbbbb",
   title |-> IF url = "https://youtu.be/aaaaaaaaaaa" THEN "Title A" ELSE "Title B",
   transcript |-> IF url = "https://youtu.be/aaaaaaaaaaa" THEN "" ELSE "words of B"]
ImageOf(body) ==
  [null |-> FALSE,
   imagePrompt |-> <<"prompt", body.title, body.transcript, body.style>>,
   imageData |-> <<"data:image/png;base64,", body.title>>,
   width |-> SHOPIFY_IMAGE_WIDTH,
   height |-> SHOPIFY_IMAGE_HEIGHT]
UiStyles == {"modern and professional", "vibrant and colorful", ""}
\* how a call settles: 2xx, an error status with or without an error field,
\* a rejected fetch
UiOutcomes == {"ok", "error", "errornomessage", "throw"}

VARIABLES uiUrl, uiVideoData, uiGeneratedImage, uiStyle, uiLoading, uiGenerating,
          uiError, uiFetchCalls, uiGenCalls, uiIssued

uiVars == <<uiUrl, uiVideoData, uiGeneratedImage, uiStyle, uiLoading, uiGenerating,
            uiError, uiFetchCalls, uiGenCalls, uiIssued>>

\* the useState initial values (lines 22-28); no call is outstanding
UiInit ==
  /\ uiUrl = ""
  /\ uiVideoData = Null
  /\ uiGeneratedImage = Null
  /\ uiStyle = "modern and professional"
  /\ uiLoading = FALSE
  /\ uiGenerating = FALSE
  /\ uiError = ""
  /\ uiFetchCalls = {}
  /\ uiGenCalls = {}
  /\ uiIssued = 0

\* disabled={loading || !url} (line 129)
FetchDisabled == uiLoading \/ uiUrl = ""
\* the Generate button is rendered under videoData (line 183),
\* disabled={generating} (line 217)
GenerateRendered == uiVideoData # Null
GenerateDisabledNever == FALSE
GenerateDisabled == uiGenerating
\* the Regenerate button is rendered under generatedImage (line 248),
\* disabled={generating} (line 281)
RegenerateRendered == uiGeneratedImage # Null
RegenerateDisabled == uiGenerating

\* onChange of the url input (line 123)
UiSetUrl(u) ==
  /\ u # uiUrl
  /\ uiUrl' = u
  /\ UNCHANGED <<uiVideoData, uiGeneratedImage, uiStyle, uiLoading, uiGenerating,
                 uiError, uiFetchCalls, uiGenCalls, uiIssued>>

\* a style preset or the freeform style input (lines 183-214)
UiSetStyle(st) ==
  /\ uiVideoData # Null
  /\ st # uiStyle
  /\ uiStyle' = st
  /\ UNCHANGED <<uiUrl, uiVideoData, uiGeneratedImage, uiLoading, uiGenerating,
                 uiError, uiFetchCalls, uiGenCalls, uiIssued>>

\* fetchVideoData up to its await (lines 30-41)
fetchVideoData ==
  /\ uiIssued < MaxCalls
  /\ uiIssued' = uiIssued + 1
  /\ uiLoading' = TRUE
  /\ uiError' = ""
  /\ uiVideoData' = Null
  /\ uiGeneratedImage' = Null
  /\ uiFetchCalls' = uiFetchCalls \cup {[id |-> uiIssued + 1, url |-> uiUrl]}
  /\ UNCHANGED <<uiUrl, uiStyle, uiGenerating, uiGenCalls>>

\* a click on Fetch Video (lines 127-133)
UiClickFetch ==
  /\ ~FetchDisabled
  /\ fetchVideoData

\* fetchVideoData after its await (lines 43-54)
UiFetchSettles(call, outcome) ==
  /\ call \in uiFetchCalls
  /\ uiFetchCalls' = uiFetchCalls \ {call}
  /\ uiLoading' = FALSE
  /\ IF outcome = "ok"
     THEN uiVideoData' = VideoOf(call.url) /\ uiError' = uiError
     ELSE /\ uiVideoData' = uiVideoData
          /\ uiError' = CASE outcome = "error" -> "Invalid YouTube URL"
                          [] outcome = "errornomessage" -> "Failed to fetch video data"
                          [] outcome = "throw" -> "Failed to fetch"
  /\ UNCHANGED <<uiUrl, uiGeneratedImage, uiStyle, uiGenerating, uiGenCalls, uiIssued>>

\* generateImage up to its await (lines 57-72)
generateImage ==
  /\ uiVideoData # Null
  /\ uiIssued < MaxCalls
  /\ uiIssued' = uiIssued + 1
  /\ uiGenerating' = TRUE
  /\ uiError' = ""
  /\ uiGenCalls' = uiGenCalls \cup
       {[id |-> uiIssued + 1,
         body |-> [title |-> uiVideoData.title, transcript |-> uiVideoData.transcript,
                   style |-> uiStyle]]}
  /\ UNCHANGED <<uiUrl, uiVideoData, uiGeneratedImage, uiStyle, uiLoading, uiFetchCalls>>

\* a click on Generate Featured Image (lines 215-243)
UiClickGenerate ==
  /\ GenerateRendered
  /\ ~GenerateDisabled
  /\ generateImage

\* a click on Regenerate (lines 279-285)
UiClickRegenerate ==
  /\ RegenerateRendered
  /\ ~RegenerateDisabled
  /\ generateImage

\* generateImage after its await (lines 74-85)
UiGenerateSettles(call, outcome) ==
  /\ call \in uiGenCalls
  /\ uiGenCalls' = uiGenCalls \ {call}
  /\ uiGenerating' = FALSE
  /\ IF outcome = "ok"
     THEN uiGeneratedImage' = ImageOf(call.body) /\ uiError' = uiError
     ELSE /\ uiGeneratedImage' = uiGeneratedImage
          /\ uiError' = CASE outcome = "error" -> "GEMINI_API_KEY not configured"
                          [] outcome = "errornomessage" -> "Failed to generate image"
                          [] outcome = "throw" -> "Failed to fetch"
  /\ UNCHANGED <<uiUrl, uiVideoData, uiStyle, uiLoading, uiFetchCalls, uiIssued>>

\* ========================================================================
\* Specifications
\* ========================================================================
vars == <<ytVars, exVars, imgVars, frVars, uiVars>>

ImgIdle == apiKey = TRUE /\ GeIdle /\ GIdle

\* one request to /api/youtube
InitYt == YtInit /\ ExIdle /\ ImgIdle /\ FrInit /\ UiInit
NextYt ==
  \/ \E req \in YtRequests : YtPost(req) /\ UNCHANGED <<exVars, imgVars, frVars, uiVars>>
  \/ \E out \in OembedOutcomes :
       YtOembedReturn(out) /\ UNCHANGED <<exVars, imgVars, frVars, uiVars>>
  \/ \E out \in TranscriptOutcomes :
       YtTranscriptReturn(out) /\ UNCHANGED <<exVars, imgVars, frVars, uiVars>>
SpecYt == InitYt /\ [][NextYt]_vars

\* extractVideoId on inputs of known make-up
InitExtract == YtInit /\ ExInit /\ ImgIdle /\ FrInit /\ UiInit
NextExtract == ExApply /\ UNCHANGED <<ytVars, imgVars, frVars, uiVars>>
SpecExtract == InitExtract /\ [][NextExtract]_vars

\* one request to /api/generate-enhanced or to /api/generate, with or
\* without GEMINI_API_KEY in the environment
InitImage == YtInit /\ ExIdle /\ ImgInit /\ FrInit /\ UiInit
NextImage ==
  \/ \E req \in GeRequests :
       gPc = "idle" /\ GePost(req) /\ UNCHANGED <<ytVars, exVars, frVars, uiVars>>
  \/ \E out \in ImageFetchOutcomes :
       GeImageFetched(out) /\ UNCHANGED <<ytVars, exVars, frVars, uiVars>>
  \/ \E out \in ProviderOutcomes :
       GeModelReturn(out) /\ UNCHANGED <<ytVars, exVars, frVars, uiVars>>
  \/ \E req \in GRequests :
       gePc = "idle" /\ GPost(req) /\ UNCHANGED <<ytVars, exVars, frVars, uiVars>>
  \/ \E out \in ProviderOutcomes :
       GModelReturn(out) /\ UNCHANGED <<ytVars, exVars, frVars, uiVars>>
SpecImage == InitImage /\ [][NextImage]_vars

\* the same title, transcript and style sent to /api/generate and then, with
\* a mode other than "enhance", to /api/generate-enhanced, the provider
\* answering both alike
PairTranscripts == GenTranscripts \cup {Fill("x", GenerateContextLimit + 1)}
PairGRequests ==
  GRequests \cup [json : {TRUE}, title : GenTitles, transcript : PairTranscripts,
                  style : GenStyles]
PairSourceImages ==
  {si \in SourceImages :
     si.kind = "absent" \/ (si.kind = "string" /\ si.val = DataPrefix)}
InitPair == YtInit /\ ExIdle /\ ImgInit /\ FrInit /\ UiInit
NextPair ==
  \/ \E req \in PairGRequests :
       GPost(req) /\ UNCHANGED <<ytVars, exVars, frVars, uiVars>>
  \/ \E out \in ProviderOutcomes :
       GModelReturn(out) /\ UNCHANGED <<ytVars, exVars, frVars, uiVars>>
  \/ \E si \in PairSourceImages, mode \in GenModes \ {"enhance"} :
       /\ gPc = "done"
       /\ GePost([json |-> gReq.json, title |-> gReq.title,
                  transcript |-> gReq.transcript, style |-> gReq.style,
                  sourceImage |-> si, mode |-> mode])
       /\ UNCHANGED <<ytVars, exVars, frVars, uiVars>>
  \/ \E out \in ProviderOutcomes :
       /\ out = gResponse
       /\ GeModelReturn(out)
       /\ UNCHANGED <<ytVars, exVars, frVars, uiVars>>
SpecPair == InitPair /\ [][NextPair]_vars

\* one request to /api/frame
InitFrame == YtInit /\ ExIdle /\ ImgIdle /\ FrInit /\ UiInit
NextFrame ==
  \/ FrTick /\ UNCHANGED <<ytVars, exVars, imgVars, uiVars>>
  \/ \E req \in FrameRequests, t2 \in 0..(MaxClock + 1) :
       FrPost(1, req, t2) /\ UNCHANGED <<ytVars, exVars, imgVars, uiVars>>
  \/ FrParsed(1) /\ UNCHANGED <<ytVars, exVars, imgVars, uiVars>>
  \/ \E ok \in BOOLEAN :
       FrYtDlpReturn(1, ok) /\ UNCHANGED <<ytVars, exVars, imgVars, uiVars>>
  \/ \E complete \in BOOLEAN :
       FrFfmpegWrite(1, complete) /\ UNCHANGED <<ytVars, exVars, imgVars, uiVars>>
  \/ \E ok \in BOOLEAN :
       FrFfmpegReturn(1, ok) /\ UNCHANGED <<ytVars, exVars, imgVars, uiVars>>
SpecFrame == InitFrame /\ [][NextFrame]_vars

\* several requests to /api/frame in progress at once
ConcFrameRequests ==
  {req \in FrameRequests :
     req.kind \in {"badjson", "novideoid"}
       \/ (req.kind = "ok" /\ req.timestamp = <<"1",":","3","0">>)}
InitFrameConc == YtInit /\ ExIdle /\ ImgIdle /\ FrInit /\ UiInit
NextFrameConc ==
  \/ FrTick /\ UNCHANGED <<ytVars, exVars, imgVars, uiVars>>
  \/ \E r \in FrameProcs, req \in ConcFrameRequests, t2 \in 0..(MaxClock + 1) :
       FrPost(r, req, t2) /\ UNCHANGED <<ytVars, exVars, imgVars, uiVars>>
  \/ \E r \in FrameProcs :
       FrParsed(r) /\ UNCHANGED <<ytVars, exVars, imgVars, uiVars>>
  \/ \E r \in FrameProcs, ok \in BOOLEAN :
       FrYtDlpReturn(r, ok) /\ UNCHANGED <<ytVars, exVars, imgVars, uiVars>>
  \/ \E r \in FrameProcs, complete \in BOOLEAN :
       FrFfmpegWrite(r, complete) /\ UNCHANGED <<ytVars, exVars, imgVars, uiVars>>
  \/ \E r \in FrameProcs, ok \in BOOLEAN :
       FrFfmpegReturn(r, ok) /\ UNCHANGED <<ytVars, exVars, imgVars, uiVars>>
SpecFrameConc == InitFrameConc /\ [][NextFrameConc]_vars

\* the page and the calls it has outstanding
InitUi == YtInit /\ ExIdle /\ ImgIdle /\ FrInit /\ UiInit
NextUi ==
  \/ \E u \in UiUrls : UiSetUrl(u) /\ UNCHANGED <<ytVars, exVars, imgVars, frVars>>
  \/ \E st \in UiStyles : UiSetStyle(st) /\ UNCHANGED <<ytVars, exVars, imgVars, frVars>>
  \/ UiClickFetch /\ UNCHANGED <<ytVars, exVars, imgVars, frVars>>
  \/ \E call \in uiFetchCalls, outcome \in UiOutcomes :
       UiFetchSettles(call, outcome) /\ UNCHANGED <<ytVars, exVars, imgVars, frVars>>
  \/ UiClickGenerate /\ UNCHANGED <<ytVars, exVars, imgVars, frVars>>
  \/ UiClickRegenerate /\ UNCHANGED <<ytVars, exVars, imgVars, frVars>>
  \/ \E call \in uiGenCalls, outcome \in UiOutcomes :
       UiGenerateSettles(call, outcome) /\ UNCHANGED <<ytVars, exVars, imgVars, frVars>>
SpecUi == InitUi /\ [][NextUi]_vars

\* all of it: the endpoints serve one request each while the page runs
Init == YtInit /\ ExIdle /\ ImgInit /\ FrInit /\ UiInit
Next == NextYt \/ NextImage \/ NextFrame \/ NextUi
Spec == Init /\ [][Next]_vars

\* ========================================================================
\* Properties of /api/youtube
\* ========================================================================
YtUnparseable ==
  ytUrl.kind = "string" /\ ~extractVideoId(ytUrl.url).matched

\* C5 (as claimed): for every url string from which no video id can be
\* extracted, the response is 400 "Invalid YouTube URL" and no outbound call
\* (oEmbed fetch, transcript provider) is made.
C5_UnparseableUrlIsInvalidUrl400 ==
  (ytPc = "done" /\ YtUnparseable) =>
     (ytResp = ErrResp(400, "Invalid YouTube URL") /\ ytCalls = <<>>)

\* C5 (amended): for every non-empty url string from which no video id can
\* be extracted, the response is 400 "Invalid YouTube URL"; for the empty
\* string it is 400 "URL is required"; in both cases no outbound call is made.
C5_NonEmptyUnparseableUrlIsInvalidUrl400 ==
  (ytPc = "done" /\ YtUnparseable) =>
     /\ ytCalls = <<>>
     /\ ytResp.status = 400
     /\ ytResp.error = (IF Len(ytUrl.url) = 0 THEN "URL is required"
                        ELSE "Invalid YouTube URL")

C5_Witness ==
  /\ ytPc = "done"
  /\ YtUnparseable
  /\ Len(ytUrl.url) > IdLen
  /\ ytResp = ErrResp(400, "Invalid YouTube URL")

\* C6: when the id is extracted and the oEmbed fetch succeeded, a throw of
\* the transcript provider yields 200 with transcript "" and videoId, title,
\* author and thumbnailUrl as on the normal path.
YtTranscriptThrew ==
  /\ ytPc = "done"
  /\ Len(ytCalls) = 2
  /\ ytCalls[1].result = "ok"
  /\ ytCalls[2].result = "throw"

C6_TranscriptThrowDegradesToEmpty ==
  YtTranscriptThrew =>
     ytResp = [status |-> 200,
               videoId |-> extractVideoId(ytUrl.url).id,
               title |-> ytMetadata.title,
               author |-> ytMetadata.author_name,
               thumbnailUrl |-> <<"https://img.youtube.com/vi/">>
                                  \o extractVideoId(ytUrl.url).id
                                  \o <<"/maxresdefault.jpg">>,
               transcript |-> <<>>]

C6_Witness ==
  /\ YtTranscriptThrew
  /\ ytResp.status = 200
  /\ ytResp.transcript = <<>>
  /\ ytResp.title = "Title B"

\* C7: for every 11-character id over [a-zA-Z0-9_-], extractVideoId returns
\* exactly that id for watch?v=ID, youtu.be/ID and embed/ID, each optionally
\* followed by a suffix starting with '&', '?' or '#', and for the bare ID.
ExAcceptedShape ==
  /\ exInput.body \in SampleIds
  /\ \/ exInput.shape # <<>> /\ exInput.tail \in Suffixes
     \/ exInput.shape = <<>> /\ exInput.lead = <<>> /\ exInput.tail = <<>>

C7_AcceptedShapesReturnTheId ==
  (exPc = "done" /\ ExAcceptedShape) =>
     (exResult.matched /\ exResult.id = exInput.body)

C7_Witness ==
  /\ exPc = "done"
  /\ exInput.shape = EmbedPrefix
  /\ exInput.lead # <<>>
  /\ exInput.tail = <<"#","f">>
  /\ exInput.body = <<"d","Q","w","4","w","9","W","g","X","c","Q">>
  /\ exResult.id = exInput.body

\* C8 (as claimed): every videoId that extractVideoId returns, and that the
\* handler embeds in the oEmbed URL, the thumbnailUrl and the response, has
\* exactly 11 characters of [a-zA-Z0-9_-].
IsNormalizedId(id) ==
  Len(id) = IdLen /\ \A i \in 1..Len(id) : id[i] \in IdChars

C8_VideoIdIsNormalized11 ==
  (ytPc \in {"oembed", "transcript"} \/ (ytPc = "done" /\ ytResp.status = 200))
     => IsNormalizedId(ytVideoId)

\* ========================================================================
\* Properties of /api/generate-enhanced and /api/generate
\* ========================================================================
\* s has the shape data:<mime>;base64,<payload>: a mime of one or more
\* characters other than ';' and a payload of one or more characters of one
\* line
IsDataUriShape(s) ==
  \E i \in 1..Len(s) :
    /\ i > Len(DataPrefix) + 1
    /\ SubSeq(s, 1, Len(DataPrefix)) = DataPrefix
    /\ \A k \in (Len(DataPrefix) + 1)..(i - 1) : s[k] # ";"
    /\ i + Len(Base64Marker) <= Len(s)
    /\ SubSeq(s, i, i + Len(Base64Marker) - 1) = Base64Marker
    /\ \A k \in (i + Len(Base64Marker))..Len(s) : s[k] \notin LineTerminators

BeginsWithData(s) == Len(s) >= 5 /\ SubSeq(s, 1, 5) = <<"d","a","t","a",":">>

GeMalformedDataUri ==
  /\ gePc # "idle"
  /\ geReq.json
  /\ geReq.mode = "enhance"
  /\ geReq.sourceImage.kind = "string"
  /\ BeginsWithData(geReq.sourceImage.val)
  /\ ~IsDataUriShape(geReq.sourceImage.val)

GeModelInvoked == \E i \in 1..Len(geCalls) : geCalls[i].to = "model"

\* C3 (as claimed): in enhance mode a sourceImage that begins with "data:"
\* but has not the shape data:<mime>;base64,<payload> fails with status 400,
\* and the image model is never invoked.
C3_MalformedDataUriIs400 ==
  (GeMalformedDataUri /\ apiKey) =>
     (~GeModelInvoked /\ (gePc = "done" => geResp.status = 400))

\* C3 (amended): such a request fails with status 500 (error "Invalid base64
\* image format", or "GEMINI_API_KEY not configured" when the key is not
\* set), and the image model is never invoked.
C3_MalformedDataUriIs500 ==
  GeMalformedDataUri =>
     /\ ~GeModelInvoked
     /\ gePc = "done"
     /\ geResp.status = 500
     /\ geResp.error = (IF apiKey THEN "Invalid base64 image format"
                        ELSE "GEMINI_API_KEY not configured")

C3_Witness ==
  /\ GeMalformedDataUri
  /\ apiKey
  /\ Len(geReq.sourceImage.val) > Len(DataPrefix) + Len(Base64Marker)
  /\ geResp = ErrResp(500, "Invalid base64 image format")

\* C4: a request with mode "enhance" and no (or empty) sourceImage is never
\* answered with a success shape, and every model invocation made for a mode
\* "enhance" request sends the source image part followed by the
\* transformation prompt.
GeSentImageThenPrompt(parts) ==
  /\ Len(parts) = 2
  /\ parts[1].kind = "inlineData"
  /\ parts[2].kind = "text"
  /\ parts[2].text[1] =
       "Transform this image into a professional Shopify blog featured image."

C4_EnhanceRequiresSourceImage ==
  (gePc # "idle" /\ geReq.json /\ geReq.mode = "enhance") =>
     /\ (gePc = "done" /\ geReq.sourceImage.kind = "absent") => geResp.status # 200
     /\ \A i \in 1..Len(geCalls) :
          geCalls[i].to = "model" => GeSentImageThenPrompt(geCalls[i].arg)

\* C10 (as claimed): with several parts in the first candidate, imagePrompt is
\* the first text part and imageData the first image part.
SetMin(S) == CHOOSE x \in S : \A y \in S : x <= y
SetMax(S) == CHOOSE x \in S : \A y \in S : x >= y
TextParts(parts) == {i \in 1..Len(parts) : parts[i].text # <<>>}
ImageParts(parts) == {i \in 1..Len(parts) : parts[i].data # <<>>}

ReportsFirstParts(response, resp) ==
  (response.kind = "ok" /\ resp.status = 200) =>
     /\ TextParts(response.parts) # {} =>
          resp.imagePrompt = response.parts[SetMin(TextParts(response.parts))].text
     /\ resp.imageData = <<"data:image/png;base64,">>
                           \o response.parts[SetMin(ImageParts(response.parts))].data

C10_FirstTextAndFirstImageWin ==
  /\ gePc = "done" => ReportsFirstParts(geResponse, geResp)
  /\ gPc = "done" => ReportsFirstParts(gResponse, gResp)

\* C10 (amended): imagePrompt is the last part with a non-empty text (the
\* endpoint's default when there is none) and imageData the last part with
\* non-empty inline data, whatever earlier parts contain; with no image part
\* the answer is the 500 of a missing image.
ReportsLastParts(response, resp, default) ==
  response.kind = "ok" =>
     IF ImageParts(response.parts) = {} THEN resp = NoImageResp
     ELSE /\ resp.status = 200
          /\ resp.imagePrompt =
               (IF TextParts(response.parts) = {} THEN default
                ELSE response.parts[SetMax(TextParts(response.parts))].text)
          /\ resp.imageData = <<"data:image/png;base64,">>
                                \o response.parts[SetMax(ImageParts(response.parts))].data

C10_LastTextAndLastImageWin ==
  /\ gePc = "done" =>
       ReportsLastParts(geResponse, geResp,
                        IF geReq.mode = "enhance" THEN <<"Enhanced from source image">>
                        ELSE <<"AI generated">>)
  /\ gPc = "done" =>
       ReportsLastParts(gResponse, gResp, gCalls[1].arg[1].text)

C10_Witness ==
  /\ gePc = "done"
  /\ geResponse.kind = "ok"
  /\ Cardinality(TextParts(geResponse.parts)) = 2
  /\ geResponse.parts[1].text # geResponse.parts[2].text
  /\ geResp.status = 200
  /\ geResp.imagePrompt = geResponse.parts[2].text

\* ========================================================================
\* Properties of /api/frame
\* ========================================================================
FrToolFailed(r) == fr[r].ytdlp = "failed" \/ fr[r].ffmpeg = "failed"

\* C1: for a request with a non-empty videoId, a failure of the yt-dlp call
\* or of the ffmpeg call is answered with 200, frameData the maxresdefault.jpg
\* URL of the video and a note; never with a 500.
C1_ToolFailureFallsBackWith200 ==
  \A r \in FrameProcs :
    (Len(fr[r].req.videoId) > 0 /\ FrToolFailed(r)) =>
       /\ fr[r].pc = "done"
       /\ fr[r].resp.status = 200
       /\ DOMAIN fr[r].resp = {"status", "frameData", "note"}
       /\ fr[r].resp.note # ""
       /\ fr[r].resp.frameData =
            <<"https://img.youtube.com/vi/">> \o fr[r].req.videoId
               \o <<"/maxresdefault.jpg">>

C1_Witness ==
  \E r \in FrameProcs :
    /\ fr[r].ytdlp = "ok"
    /\ fr[r].ffmpeg = "failed"
    /\ fr[r].wrote
    /\ fr[r].resp.status = 200

\* C2: on every exit path the temporary video file and frame file named for
\* the request no longer exist once the response has been returned.
C2_TempFilesRemovedOnEveryExit ==
  \A r \in FrameProcs :
    fr[r].pc = "done" =>
       (~Exists(frFs, fr[r].videoPath) /\ ~Exists(frFs, fr[r].framePath))

\* ========================================================================
\* Properties of the page
\* ========================================================================
\* C9: at most one fetch call and at most one generate call is outstanding;
\* while a fetch call is outstanding the Fetch control is disabled, while a
\* generate call is outstanding the Generate and the Regenerate control are.
C9_OneOutstandingCallPerAction ==
  /\ Cardinality(uiFetchCalls) <= 1
  /\ Cardinality(uiGenCalls) <= 1
  /\ uiFetchCalls # {} => (uiLoading /\ FetchDisabled)
  /\ uiGenCalls # {} => (uiGenerating /\ GenerateDisabled /\ RegenerateDisabled)

C9_Witness ==
  /\ Cardinality(uiFetchCalls) = 1
  /\ Cardinality(uiGenCalls) = 1
  /\ uiUrl # ""
  /\ uiIssued < MaxCalls

\* ========================================================================
\* /api/generate against /api/generate-enhanced in generate mode
\* ========================================================================
\* both endpoints have answered the same title, transcript and style, the
\* enhanced one with a mode other than "enhance", on the same provider answer
PairAnswered ==
  /\ gPc = "done" /\ gePc = "done"
  /\ geReq.json = gReq.json
  /\ geReq.title = gReq.title
  /\ geReq.transcript = gReq.transcript
  /\ geReq.style = gReq.style
  /\ geReq.mode # "enhance"
  /\ geResponse = gResponse

\* C11 (as claimed): the two endpoints send the same prompt to the model and
\* return the same response (status, imagePrompt, imageData, width, height),
\* including when the provider returns no text part.
C11_SamePromptAndSameResponse ==
  PairAnswered => (geCalls = gCalls /\ geResp = gResp)

\* C11 (amended): they send the same prompt and return the same response,
\* except when the provider returns an image and no text part: then
\* imagePrompt is the prompt that was sent for /api/generate and
\* "AI generated" for /api/generate-enhanced, the other fields being equal.
PairImageWithoutText ==
  /\ gResponse.kind = "ok"
  /\ ImageParts(gResponse.parts) # {}
  /\ TextParts(gResponse.parts) = {}

C11_SameExceptDefaultImagePrompt ==
  PairAnswered =>
     /\ geCalls = gCalls
     /\ IF PairImageWithoutText
        THEN /\ gResp.status = 200
             /\ gResp.imagePrompt = gCalls[1].arg[1].text
             /\ geResp = [gResp EXCEPT !.imagePrompt = <<"AI generated">>]
        ELSE geResp = gResp

C11_Witness ==
  /\ PairAnswered
  /\ PairImageWithoutText
  /\ Len(gReq.transcript) > GenerateContextLimit
  /\ geReq.sourceImage.kind = "string"
  /\ geResp.imagePrompt = <<"AI generated">>
  /\ geResp.imageData = gResp.imageData

\* ========================================================================
\* The generated image and the video it was generated from
\* ========================================================================
\* the image on the page was generated from the title and transcript of the
\* video on the page
ImageIsOfShownVideo ==
  /\ uiVideoData # Null
  /\ uiGeneratedImage.imagePrompt[2] = uiVideoData.title
  /\ uiGeneratedImage.imagePrompt[3] = uiVideoData.transcript

\* C12: under any interleaving of the fetch-video and generate-image actions
\* and their responses, generatedImage is non-null only together with the
\* videoData it was generated from: never while videoData is null, never
\* while videoData is another video than the one sent in the generate call.
C12_GeneratedImageOnlyWithItsVideoData ==
  uiGeneratedImage # Null => ImageIsOfShownVideo

\* ========================================================================
\* Concurrent requests to /api/frame
\* ========================================================================
\* the file at path p holds bytes that the ffmpeg of request q wrote
WrittenBy(q, p) == frFs[p] \in {FrameBytes(q, TRUE), FrameBytes(q, FALSE)}

\* request r has answered with a JPEG data URI
ReturnedJpeg(r) ==
  /\ fr[r].pc = "done"
  /\ fr[r].resp.status = 200
  /\ fr[r].frameBuffer # NoFile

\* a request that returns a JPEG data URI returns its own ffmpeg's bytes
ReturnsOwnBytes ==
  \A r \in FrameProcs :
    ReturnedJpeg(r) =>
      /\ fr[r].frameBuffer = FrameBytes(r, TRUE)
      /\ fr[r].resp = FrameResp(FrameBytes(r, TRUE))

\* a file that one request's ffmpeg wrote changes (is overwritten or
\* deleted) only in a step of that request
OnlyOwnerChangesFile ==
  \A q \in FrameProcs, p \in TempPaths :
    (WrittenBy(q, p) /\ frFs'[p] # frFs[p]) => fr'[q] # fr[q]

\* C13: when several /api/frame requests run concurrently, each request
\* that returns a JPEG data URI returns the bytes written by its own ffmpeg
\* invocation, and no request reads, overwrites or deletes the temporary
\* frame file of another request, also when two requests compute their temp
\* paths in the same Date.now() millisecond.
C13_RequestsKeepToTheirOwnFrameFile ==
  [](ReturnsOwnBytes) /\ [][OnlyOwnerChangesFile]_vars
====
